---- MODULE Spec2Model ----
(***************************************************************************)
(* Model of src/telegram_bot.py: the account store (table users), the OTP  *)
(* registry (table otp_codes), the /link conversation, the credit merge    *)
(* done on a verified OTP and the credit spend done by handle_message.     *)
(*                                                                         *)
(* A handler is a task: it runs as a sequence of steps, one step per       *)
(* access to the store (a supabase call) or to an external service, and    *)
(* keeps what it read in its locals.  The tables carry no uniqueness       *)
(* constraint: none is stated anywhere in the source.                      *)
(***************************************************************************)
EXTENDS Integers, Sequences, FiniteSets, TLC

\* ------------------------------------------------------------------ bounds
MaxTasks == 2        \* handler invocations that may be in flight together
MaxRows == 4         \* rows ever inserted into users (ids are never reused)
MaxOtps == 2         \* rows ever inserted into otp_codes
MaxTopUps == 1       \* out-of-band credit purchases
MaxFree == 1         \* free credits a web account may start with
MaxTime == 15        \* the clock stops here (minutes)
TickMinutes == 5     \* granularity of the clock (minutes)

\* ------------------------------------------------------- program constants
OtpTtlMinutes == 10  \* save_otp: timedelta(minutes=10)
MinTopicLen == 5     \* handle_message: len(topic) < 5
MaxTopicLen == 500   \* handle_message: len(topic) > 500
OtpLen == 6          \* receive_otp_for_link: len(otp) != 6
WAITING_FOR_EMAIL == 0
WAITING_FOR_OTP == 1
END == -1            \* ConversationHandler.END

\* ------------------------------------------------------------------ values
TgIds == {"A", "B"}                 \* chat identities (telegram_id)
Chats == {"c1", "c2"}               \* chats a user may talk to the bot in
NoTg == "None"
WebLocals == {"bob", "eve"}
Codes == {"111111", "222222"}       \* the codes generate_otp may draw
Never == -1                         \* last_query_at = None

Email(l, d) == [local |-> l, dom |-> d, upper |-> FALSE]
NoEmail == Email("", "")
WebEmail(l) == Email(l, "example.com")
WebEmails == {WebEmail(l) : l \in WebLocals}

\* f"tg_{telegram_id}@telegram.placeholder"
PlaceholderEmail(tg) == Email(tg, "telegram.placeholder")

\* the test taking every address for a placeholder
MutPlaceholderAnyDomain(e) == e.dom # ""

\* email.endswith('@telegram.placeholder')
IsPlaceholder(e) == e.dom = "telegram.placeholder"

\* email.lower().strip()
Lower(e) == [e EXCEPT !.upper = FALSE]

\* the parts of an address, as the model writes them, that hold a '.'
Dotted == {"example.com", "telegram.placeholder"}

\* '@' in email and '.' in email: an address is written local@dom, a text
\* without '@' has no dom
HasMarkers(e) == e.dom # "" /\ (e.local \in Dotted \/ e.dom \in Dotted)

\* what a user may type as an email: good addresses in either case, an
\* address of nobody, a text without '@' and an address without '.'
EmailInputs(locals) ==
    {[local |-> l, dom |-> "example.com", upper |-> b] : l \in locals, b \in BOOLEAN}
    \cup {Email("nobody", "example.com"), Email("hello", ""),
          Email("bob", "localhost")}

\* what a user may type as a code: its text, its length and whether it is
\* all digits
OtpText(code, len, digits) == [code |-> code, len |-> len, digits |-> digits]
\* six characters that str.isdigit() takes for digits and that are not
\* ASCII digits (Arabic-Indic digits, say)
SixOtherDigits == "six-non-ascii-digits"
OtpInputs ==
    {OtpText(c, OtpLen, TRUE) : c \in Codes}
    \cup {OtpText("12345", OtpLen - 1, TRUE), OtpText("12345a", OtpLen, FALSE),
          OtpText(SixOtherDigits, OtpLen, TRUE)}

TopicLens == {MinTopicLen - 1, MinTopicLen, MaxTopicLen, MaxTopicLen + 1}

\* what a user may type as a topic: its length and whether it begins with
\* '/' (a text like '/ hello', which Telegram does not mark as a command
\* and the filter ~filters.COMMAND lets through)
Topic(len, slash) == [len |-> len, slash |-> slash]
TopicInputs ==
    {Topic(len, FALSE) : len \in TopicLens} \cup {Topic(MinTopicLen, TRUE)}

\* -------------------------------------------------------------- users rows
Row(id, email, tg, free, paid, tq, verified, lq) ==
    [id |-> id, email |-> email, telegram_id |-> tg, free_credits |-> free,
     paid_credits |-> paid, total_queries |-> tq, email_verified |-> verified,
     last_query_at |-> lq]

\* the result None of a lookup
NoUser == Row(0, NoEmail, NoTg, 0, 0, 0, FALSE, Never)

Total(r) == r.free_credits + r.paid_credits

\* select('*').eq('telegram_id', telegram_id): result.data[0] if result.data
\* else None.  The rows come in no stated order: any matching row may be
\* data[0].  ok = FALSE is the store not configured (`if not supabase`) or
\* the select raising (`except Exception`): the result is None
get_user_by_telegram_id(tbl, telegram_id, ok) ==
    LET data == {r \in tbl : r.telegram_id = telegram_id}
    IN  IF ~ok \/ data = {} THEN {NoUser} ELSE data

\* select('*').eq('email', email.lower().strip()), with the same two ways
\* to None when ok = FALSE
get_user_by_email(tbl, email, ok) ==
    LET data == {r \in tbl : r.email = Lower(email)}
    IN  IF ~ok \/ data = {} THEN {NoUser} ELSE data

\* the binding written without the filter on the email
MutLinkEveryRow(tbl, email, telegram_id) ==
    {[r EXCEPT !.telegram_id = telegram_id] : r \in tbl}

\* the binding that also grants a free credit
MutLinkGrantsCredit(tbl, email, telegram_id) ==
    {IF r.email = Lower(email)
        THEN [r EXCEPT !.telegram_id = telegram_id, !.free_credits = @ + 1]
        ELSE r : r \in tbl}

\* update({'telegram_id': ...}).eq('email', email)
link_telegram_to_user(tbl, email, telegram_id) ==
    {IF r.email = Lower(email)
        THEN [r EXCEPT !.telegram_id = telegram_id] ELSE r : r \in tbl}

\* insert({... 'free_credits': 1, 'paid_credits': 0, 'total_queries': 0,
\* 'email_verified': False})
create_user_from_telegram(tbl, id, telegram_id) ==
    tbl \cup {Row(id, PlaceholderEmail(telegram_id), telegram_id, 1, 0, 0, FALSE, Never)}

\* update({...}).eq('telegram_id', telegram_id): every matching row
update_user_credits(tbl, telegram_id, free, paid, tq, t) ==
    {IF r.telegram_id = telegram_id
        THEN [r EXCEPT !.free_credits = free, !.paid_credits = paid,
                       !.total_queries = tq, !.last_query_at = t]
        ELSE r : r \in tbl}

\* receive_otp_for_link: delete().eq('telegram_id', telegram_id)
delete_by_telegram_id(tbl, telegram_id) ==
    {r \in tbl : r.telegram_id # telegram_id}

\* receive_otp_for_link: update({'telegram_id', 'free_credits',
\* 'paid_credits'}).eq('email', email)
merge_update(tbl, email, telegram_id, free, paid) ==
    {IF r.email = email
        THEN [r EXCEPT !.telegram_id = telegram_id, !.free_credits = free,
                       !.paid_credits = paid]
        ELSE r : r \in tbl}

\* ---------------------------------------------------------- otp_codes rows
OtpRow(email, otp, expires_at, used) ==
    [email |-> email, otp |-> otp, expires_at |-> expires_at, used |-> used]

\* save_otp: insert, expires_at = utcnow() + 10 minutes, used = False
save_otp(reg, email, otp, t) ==
    Append(reg, OtpRow(Lower(email), otp, t + OtpTtlMinutes, FALSE))

\* the select returning the used rows too
MutSelectIgnoresUsed(reg, email, otp, ok) ==
    {i \in DOMAIN reg : ok /\ reg[i].email = Lower(email) /\ reg[i].otp = otp}

\* verify_otp: select('*').eq('email').eq('otp').eq('used', False); the ids
\* of the rows returned.  ok = FALSE is the store not configured or the
\* select raising: verify_otp returns False with no row read
verify_select(reg, email, otp, ok) ==
    {i \in DOMAIN reg : ok /\ reg[i].email = Lower(email) /\ reg[i].otp = otp
                        /\ reg[i].used = FALSE}

\* the expiry test refusing a code at the very instant it expires
MutExpiredAtDeadline(row, t) == t >= row.expires_at

\* verify_otp: datetime.now(...) > expires_at
Expired(row, t) == t > row.expires_at

\* verify_otp: update({'used': True}).eq('id', otp_record['id'])
mark_used(reg, i) == [reg EXCEPT ![i].used = TRUE]

\* ------------------------------------------------------------------- state
VARIABLES
    users,       \* table users: a set of rows
    next_id,     \* the id the next inserted users row gets
    otp_codes,   \* table otp_codes: rows in the order of their ids
    now,         \* the clock (minutes)
    conv,        \* ConversationHandler: state of the conversation (user, chat)
    user_data,   \* context.user_data['link_email'] of each user
    tasks,       \* the handler invocations in flight, with their locals
    topups,      \* out-of-band credit purchases made so far
    before       \* history: users and topups when the handlers in flight began

vars == <<users, next_id, otp_codes, now, conv, user_data, tasks, topups, before>>

Tasks == 1..MaxTasks

\* a task slot that runs no handler
EmptyTask ==
    [pc |-> "idle", handler |-> "", u |-> NoTg, chat |-> "", topic_len |-> 0,
     slash |-> FALSE,
     email |-> NoEmail, otp |-> "", rec |-> 0,
     free |-> 0, paid |-> 0, total_queries |-> 0,
     tg_user |-> NoUser, tg_free |-> 0, tg_paid |-> 0, web_free |-> 0,
     web_paid |-> 0, questions |-> "", out |-> ""]

\* a handler is dispatched
Dispatch(handler, u, c) ==
    [EmptyTask EXCEPT !.pc = "run", !.handler = handler, !.u = u, !.chat = c]

\* an update goes to the first free slot
Free(t) ==
    /\ tasks[t].pc = "idle"
    /\ \A s \in Tasks : s < t => tasks[s].pc # "idle"

\* history: when an update arrives and no slot is busy, the table and the
\* number of purchases are remembered as they are
Remember ==
    before' = IF \A t \in Tasks : tasks[t].pc = "idle"
                 THEN [users |-> users, topups |-> topups]
                 ELSE before

\* a handler returned after sending the reply `out` (for handle_message,
\* with the text `questions`): what is left of it is the update it handled
\* (user, chat, the email or the code typed, whether the text began with
\* '/') and what it answered
Done(task, out) ==
    [EmptyTask EXCEPT !.pc = "done", !.handler = task.handler, !.u = task.u,
                      !.chat = task.chat, !.email = task.email, !.otp = task.otp,
                      !.slash = task.slash,
                      !.questions = task.questions, !.out = out]

\* slots that are about to insert a row
Creating == {t \in Tasks : tasks[t].pc \in {"start_create", "msg_create"}}
Saving == {t \in Tasks : tasks[t].pc = "email_save"}

TypeOK ==
    /\ next_id \in 1..(MaxRows + 1)
    /\ Len(otp_codes) <= MaxOtps
    /\ now \in 0..MaxTime
    /\ topups \in 0..MaxTopUps
    /\ \A r \in users : r.id \in 1..MaxRows
    /\ \A t \in Tasks : tasks[t].pc \in
         {"idle", "done", "start_create", "msg_create", "msg_reread",
          "msg_generate", "email_save", "email_send", "otp_mark",
          "otp_get_tg", "otp_get_web", "otp_delete", "otp_update", "otp_link"}

\* the store as the bot finds it: the web accounts exist, made by the web
\* sign-up, bound to no chat identity
InitUsers(free_bob) ==
    {Row(1, WebEmail("bob"), NoTg, free_bob, 0, 0, TRUE, Never),
     Row(2, WebEmail("eve"), NoTg, 0, 0, 0, TRUE, Never)}

Init ==
    /\ \E f \in 0..MaxFree : users = InitUsers(f)
    /\ next_id = 3
    /\ otp_codes = <<>>
    /\ now = 0
    /\ conv = [u \in TgIds |-> [c \in Chats |-> END]]
    /\ user_data = [u \in TgIds |-> NoEmail]
    /\ tasks = [t \in Tasks |-> EmptyTask]
    /\ topups = 0
    /\ before = [users |-> users, topups |-> topups]

\* ------------------------------------------------------------------- start
\* start: db_user = get_user_by_telegram_id(telegram_id); ok = FALSE is the
\* lookup failing, which start takes for a user without an account
StartBegin(t, u, ok) ==
    /\ Free(t)
    /\ \E db_user \in get_user_by_telegram_id(users, u, ok) :
         IF db_user = NoUser
            THEN /\ next_id + Cardinality(Creating) <= MaxRows
                 /\ tasks' = [tasks EXCEPT ![t] =
                        [Dispatch("start", u, "") EXCEPT !.pc = "start_create"]]
            ELSE tasks' = [tasks EXCEPT ![t] =
                        Done(Dispatch("start", u, ""), "welcome_back")]
    /\ UNCHANGED <<users, next_id, otp_codes, now, conv, user_data, topups>>
    /\ Remember

\* start: create_user_from_telegram(...); ok = FALSE is the insert raising,
\* which create_user_from_telegram turns into None
StartCreate(t, ok) ==
    /\ tasks[t].pc = "start_create"
    /\ IF ok
          THEN /\ users' = create_user_from_telegram(users, next_id, tasks[t].u)
               /\ next_id' = next_id + 1
               /\ tasks' = [tasks EXCEPT ![t] = Done(tasks[t], "welcome_new")]
          ELSE /\ tasks' = [tasks EXCEPT ![t] = Done(tasks[t], "welcome_new")]
               /\ UNCHANGED <<users, next_id>>
    /\ UNCHANGED <<otp_codes, now, conv, user_data, topups, before>>

\* ---------------------------------------------------------- handle_message
\* the credit check letting a balance of 0 through
MutCheckNegativeOnly(task, user) ==
    IF Total(user) < 0 THEN Done(task, "no_credits")
    ELSE IF task.topic_len < MinTopicLen THEN Done(task, "topic_too_short")
    ELSE IF task.topic_len > MaxTopicLen THEN Done(task, "topic_too_long")
    ELSE [task EXCEPT !.pc = "msg_generate", !.topic_len = 0,
                      !.free = user.free_credits, !.paid = user.paid_credits,
                      !.total_queries = user.total_queries]

\* handle_message, from "Check credits" to "Validate topic": of user, the
\* handler reads free, paid and total_queries from here on, and the topic
\* decides nothing any more
MsgCheck(task, user) ==
    IF Total(user) <= 0 THEN Done(task, "no_credits")
    ELSE IF task.topic_len < MinTopicLen THEN Done(task, "topic_too_short")
    ELSE IF task.topic_len > MaxTopicLen THEN Done(task, "topic_too_long")
    ELSE [task EXCEPT !.pc = "msg_generate", !.topic_len = 0,
                      !.free = user.free_credits, !.paid = user.paid_credits,
                      !.total_queries = user.total_queries]

\* handle_message reached by every text, whatever the conversation
MutMsgAnyState(t, u, c, topic, ok) ==
    /\ Free(t)
    /\ LET task == [Dispatch("handle_message", u, c) EXCEPT
                       !.topic_len = topic.len, !.slash = topic.slash]
       IN  IF topic.slash
              THEN tasks' = [tasks EXCEPT ![t] = Done(task, "ignored")]
              ELSE \E user \in get_user_by_telegram_id(users, u, ok) :
                     IF user = NoUser
                        THEN /\ next_id + Cardinality(Creating) <= MaxRows
                             /\ tasks' = [tasks EXCEPT ![t] =
                                    [task EXCEPT !.pc = "msg_create"]]
                        ELSE tasks' = [tasks EXCEPT ![t] = MsgCheck(task, user)]
    /\ UNCHANGED <<users, next_id, otp_codes, now, conv, user_data, topups>>
    /\ Remember

\* handle_message is reached by a text only when no conversation of
\* (user, chat) is open: link_handler is added before it.  "Ignore
\* commands": a text that begins with '/' makes it return at once, before
\* any access to the store and without a reply (out = "ignored").  ok =
\* FALSE is the lookup failing, taken for a user without an account
MsgBegin(t, u, c, topic, ok) ==
    /\ Free(t)
    /\ conv[u][c] = END
    /\ LET task == [Dispatch("handle_message", u, c) EXCEPT
                       !.topic_len = topic.len, !.slash = topic.slash]
       IN  IF topic.slash
              THEN tasks' = [tasks EXCEPT ![t] = Done(task, "ignored")]
              ELSE \E user \in get_user_by_telegram_id(users, u, ok) :
                     IF user = NoUser
                        THEN /\ next_id + Cardinality(Creating) <= MaxRows
                             /\ tasks' = [tasks EXCEPT ![t] =
                                    [task EXCEPT !.pc = "msg_create"]]
                        ELSE tasks' = [tasks EXCEPT ![t] = MsgCheck(task, user)]
    /\ UNCHANGED <<users, next_id, otp_codes, now, conv, user_data, topups>>
    /\ Remember

\* handle_message: create_user_from_telegram(...)
MsgCreate(t, ok) ==
    /\ tasks[t].pc = "msg_create"
    /\ IF ok
          THEN /\ users' = create_user_from_telegram(users, next_id, tasks[t].u)
               /\ next_id' = next_id + 1
               /\ tasks' = [tasks EXCEPT ![t] = [tasks[t] EXCEPT !.pc = "msg_reread"]]
          ELSE /\ tasks' = [tasks EXCEPT ![t] = [tasks[t] EXCEPT !.pc = "msg_reread"]]
               /\ UNCHANGED <<users, next_id>>
    /\ UNCHANGED <<otp_codes, now, conv, user_data, topups, before>>

\* handle_message: user = get_user_by_telegram_id(telegram_id) after the
\* creation; user.get on None (no row, or ok = FALSE: the lookup failing)
\* raises and the handler ends in error_handler
MsgReread(t, ok) ==
    /\ tasks[t].pc = "msg_reread"
    /\ \E user \in get_user_by_telegram_id(users, tasks[t].u, ok) :
         tasks' = [tasks EXCEPT ![t] =
            IF user = NoUser THEN Done(tasks[t], "error") ELSE MsgCheck(tasks[t], user)]
    /\ UNCHANGED <<users, next_id, otp_codes, now, conv, user_data, topups, before>>

\* the deduction taking paid credits first
MutDeductPaidFirst(free, paid) ==
    IF paid > 0 THEN <<free, paid - 1>> ELSE <<free - 1, paid>>

\* the deduction taking a free credit whether or not there is one
MutDeductFreeOnly(free, paid) == <<free - 1, paid>>

\* handle_message, "Deduct credit": <<new_free, new_paid>>
Deduct(free, paid) ==
    IF free > 0 THEN <<free - 1, paid>> ELSE <<free, paid - 1>>

\* the spend skipped when the generation failed
MutSpendOnlyIfGenerated(t, generated, ok) ==
    /\ tasks[t].pc = "msg_generate"
    /\ LET new == Deduct(tasks[t].free, tasks[t].paid)
           questions == IF generated THEN "questions" ELSE "error_text"
       IN  /\ users' = IF ok /\ generated
                 THEN update_user_credits(users, tasks[t].u, new[1], new[2],
                                          tasks[t].total_queries + 1, now)
                 ELSE users
           /\ tasks' = [tasks EXCEPT ![t] =
                 Done([tasks[t] EXCEPT !.questions = questions], "answered")]
    /\ UNCHANGED <<next_id, otp_codes, now, conv, user_data, topups, before>>

\* handle_message from generate_questions(topic), which returns the text of
\* the questions or (generated = FALSE) the text of its error, to
\* update_user_credits(telegram_id, new_free, new_paid, total_queries);
\* ok = FALSE is the update raising, which is logged.  The call of the
\* generation service touches nothing the handlers share, so it is one step
\* with the write that follows it.
MsgSpend(t, generated, ok) ==
    /\ tasks[t].pc = "msg_generate"
    /\ LET new == Deduct(tasks[t].free, tasks[t].paid)
           questions == IF generated THEN "questions" ELSE "error_text"
       IN  /\ users' = IF ok
                 THEN update_user_credits(users, tasks[t].u, new[1], new[2],
                                          tasks[t].total_queries + 1, now)
                 ELSE users
           /\ tasks' = [tasks EXCEPT ![t] =
                 Done([tasks[t] EXCEPT !.questions = questions], "answered")]
    /\ UNCHANGED <<next_id, otp_codes, now, conv, user_data, topups, before>>

\* ------------------------------------------------------- the /link dialogue
\* link_command: entry point of link_handler, taken when no conversation of
\* (user, chat) is open; ok = FALSE is the lookup failing, taken for a user
\* without an account
link_command(t, u, c, ok) ==
    /\ Free(t)
    /\ conv[u][c] = END
    /\ \E user \in get_user_by_telegram_id(users, u, ok) :
         IF user # NoUser /\ ~IsPlaceholder(user.email)
            THEN /\ tasks' = [tasks EXCEPT ![t] =
                        Done(Dispatch("link_command", u, c), "already_linked")]
                 /\ conv' = [conv EXCEPT ![u][c] = END]
            ELSE /\ tasks' = [tasks EXCEPT ![t] =
                        Done(Dispatch("link_command", u, c), "ask_email")]
                 /\ conv' = [conv EXCEPT ![u][c] = WAITING_FOR_EMAIL]
    /\ UNCHANGED <<users, next_id, otp_codes, now, user_data, topups>>
    /\ Remember

\* random.randint(100000, 999999)
generate_otp == Codes

\* receive_email_for_link without the test of the other binding
MutEmailNoBindingCheck(t, u, c, raw, ok) ==
    /\ Free(t)
    /\ conv[u][c] = WAITING_FOR_EMAIL
    /\ LET email == Lower(raw)
           task == [Dispatch("receive_email_for_link", u, c) EXCEPT !.email = email]
       IN  IF ~HasMarkers(email)
              THEN /\ tasks' = [tasks EXCEPT ![t] = Done(task, "invalid_email")]
                   /\ UNCHANGED conv
              ELSE \E existing_user \in get_user_by_email(users, email, ok) :
                     IF existing_user = NoUser
                        THEN /\ tasks' = [tasks EXCEPT ![t] = Done(task, "no_account")]
                             /\ UNCHANGED conv
                     ELSE /\ Len(otp_codes) + Cardinality(Saving) < MaxOtps
                          /\ \E otp \in generate_otp :
                               tasks' = [tasks EXCEPT ![t] =
                                  [task EXCEPT !.pc = "email_save", !.otp = otp]]
                          /\ UNCHANGED conv
    /\ UNCHANGED <<users, next_id, otp_codes, now, user_data, topups>>
    /\ Remember

\* receive_email_for_link up to generate_otp(); ok = FALSE is the lookup of
\* the address failing, taken for an address of nobody
EmailBegin(t, u, c, raw, ok) ==
    /\ Free(t)
    /\ conv[u][c] = WAITING_FOR_EMAIL
    /\ LET email == Lower(raw)
           task == [Dispatch("receive_email_for_link", u, c) EXCEPT !.email = email]
       IN  IF ~HasMarkers(email)
              THEN /\ tasks' = [tasks EXCEPT ![t] = Done(task, "invalid_email")]
                   /\ UNCHANGED conv
              ELSE \E existing_user \in get_user_by_email(users, email, ok) :
                     IF existing_user = NoUser
                        THEN /\ tasks' = [tasks EXCEPT ![t] = Done(task, "no_account")]
                             /\ UNCHANGED conv
                     ELSE IF existing_user.telegram_id # NoTg
                             /\ existing_user.telegram_id # u
                        THEN /\ tasks' = [tasks EXCEPT ![t] = Done(task, "linked_elsewhere")]
                             /\ conv' = [conv EXCEPT ![u][c] = END]
                     ELSE /\ Len(otp_codes) + Cardinality(Saving) < MaxOtps
                          /\ \E otp \in generate_otp :
                               tasks' = [tasks EXCEPT ![t] =
                                  [task EXCEPT !.pc = "email_save", !.otp = otp]]
                          /\ UNCHANGED conv
    /\ UNCHANGED <<users, next_id, otp_codes, now, user_data, topups>>
    /\ Remember

\* save_otp's failure taken for success: the mail is sent for a code
\* that has no record
MutSaveFailureGoesOn(t, ok) ==
    /\ tasks[t].pc = "email_save"
    /\ IF ok
          THEN otp_codes' = save_otp(otp_codes, tasks[t].email, tasks[t].otp, now)
          ELSE UNCHANGED otp_codes
    /\ tasks' = [tasks EXCEPT ![t] = [tasks[t] EXCEPT !.pc = "email_send"]]
    /\ UNCHANGED <<users, next_id, now, conv, user_data, topups, before>>

\* receive_email_for_link: save_otp(email, otp); ok = FALSE is the insert
\* raising: save_otp returns False and the user is told the OTP failed
EmailSave(t, ok) ==
    /\ tasks[t].pc = "email_save"
    /\ IF ok
          THEN /\ otp_codes' = save_otp(otp_codes, tasks[t].email, tasks[t].otp, now)
               /\ tasks' = [tasks EXCEPT ![t] = [tasks[t] EXCEPT !.pc = "email_send"]]
          ELSE /\ tasks' = [tasks EXCEPT ![t] = Done(tasks[t], "otp_failed")]
               /\ UNCHANGED otp_codes
    /\ UNCHANGED <<users, next_id, now, conv, user_data, topups, before>>

\* receive_email_for_link: send_otp_email(email, otp) and what follows
EmailSend(t, sent) ==
    /\ tasks[t].pc = "email_send"
    /\ IF sent
          THEN /\ user_data' = [user_data EXCEPT ![tasks[t].u] = tasks[t].email]
               /\ conv' = [conv EXCEPT ![tasks[t].u][tasks[t].chat] = WAITING_FOR_OTP]
               /\ tasks' = [tasks EXCEPT ![t] = Done(tasks[t], "otp_sent")]
          ELSE /\ tasks' = [tasks EXCEPT ![t] = Done(tasks[t], "otp_failed")]
               /\ UNCHANGED <<conv, user_data>>
    /\ UNCHANGED <<users, next_id, otp_codes, now, topups, before>>

\* receive_otp_for_link asking again for the code when the verification
\* fails
MutOtpFailureKeepsState(t, u, c, typed, ok) ==
    /\ Free(t)
    /\ conv[u][c] = WAITING_FOR_OTP
    /\ LET email == user_data[u]
           task == [Dispatch("receive_otp_for_link", u, c) EXCEPT
                       !.email = email, !.otp = typed.code]
           failed == /\ tasks' = [tasks EXCEPT ![t] = Done(task, "invalid_or_expired")]
                     /\ UNCHANGED conv
       IN  IF email = NoEmail
              THEN /\ tasks' = [tasks EXCEPT ![t] = Done(task, "session_expired")]
                   /\ conv' = [conv EXCEPT ![u][c] = END]
           ELSE IF typed.len # OtpLen \/ ~typed.digits
              THEN /\ tasks' = [tasks EXCEPT ![t] = Done(task, "invalid_otp_format")]
                   /\ UNCHANGED conv
           ELSE IF verify_select(otp_codes, email, typed.code, ok) = {}
              THEN failed
           ELSE \E i \in verify_select(otp_codes, email, typed.code, ok) :
                   IF Expired(otp_codes[i], now)
                      THEN failed
                      ELSE /\ tasks' = [tasks EXCEPT ![t] =
                                  [task EXCEPT !.pc = "otp_mark", !.rec = i]]
                           /\ UNCHANGED conv
    /\ UNCHANGED <<users, next_id, otp_codes, now, user_data, topups>>
    /\ Remember

\* receive_otp_for_link up to verify_otp's select and expiry test; ok =
\* FALSE is the select failing: verify_otp returns False
OtpBegin(t, u, c, typed, ok) ==
    /\ Free(t)
    /\ conv[u][c] = WAITING_FOR_OTP
    /\ LET email == user_data[u]
           task == [Dispatch("receive_otp_for_link", u, c) EXCEPT
                       !.email = email, !.otp = typed.code]
           failed == /\ tasks' = [tasks EXCEPT ![t] = Done(task, "invalid_or_expired")]
                     /\ conv' = [conv EXCEPT ![u][c] = END]
       IN  IF email = NoEmail
              THEN /\ tasks' = [tasks EXCEPT ![t] = Done(task, "session_expired")]
                   /\ conv' = [conv EXCEPT ![u][c] = END]
           ELSE IF typed.len # OtpLen \/ ~typed.digits
              THEN /\ tasks' = [tasks EXCEPT ![t] = Done(task, "invalid_otp_format")]
                   /\ UNCHANGED conv
           ELSE IF verify_select(otp_codes, email, typed.code, ok) = {}
              THEN failed
           ELSE \E i \in verify_select(otp_codes, email, typed.code, ok) :
                   IF Expired(otp_codes[i], now)
                      THEN failed
                      ELSE /\ tasks' = [tasks EXCEPT ![t] =
                                  [task EXCEPT !.pc = "otp_mark", !.rec = i]]
                           /\ UNCHANGED conv
    /\ UNCHANGED <<users, next_id, otp_codes, now, user_data, topups>>
    /\ Remember

\* verify_otp: "Mark OTP as used" and return True; ok = FALSE is the update
\* raising: verify_otp returns False, receive_otp_for_link answers as for a
\* wrong code and ends the conversation, the record stays unused
OtpMark(t, ok) ==
    /\ tasks[t].pc = "otp_mark"
    /\ IF ok
          THEN /\ otp_codes' = mark_used(otp_codes, tasks[t].rec)
               /\ tasks' = [tasks EXCEPT ![t] = [tasks[t] EXCEPT !.pc = "otp_get_tg"]]
               /\ UNCHANGED conv
          ELSE /\ tasks' = [tasks EXCEPT ![t] = Done(tasks[t], "invalid_or_expired")]
               /\ conv' = [conv EXCEPT ![tasks[t].u][tasks[t].chat] = END]
               /\ UNCHANGED otp_codes
    /\ UNCHANGED <<users, next_id, now, user_data, topups, before>>

\* receive_otp_for_link: tg_user = get_user_by_telegram_id(telegram_id);
\* ok = FALSE is the lookup failing: tg_user = None
OtpGetTg(t, ok) ==
    /\ tasks[t].pc = "otp_get_tg"
    /\ \E tg_user \in get_user_by_telegram_id(users, tasks[t].u, ok) :
         tasks' = [tasks EXCEPT ![t] =
            [tasks[t] EXCEPT !.pc = "otp_get_web", !.tg_user = tg_user]]
    /\ UNCHANGED <<users, next_id, otp_codes, now, conv, user_data, topups, before>>

\* receive_otp_for_link: after web_user is read, the branch the merge takes
MergeBranch(tg_user, web_user) ==
    IF tg_user # NoUser /\ web_user # NoUser
       THEN IF IsPlaceholder(tg_user.email) THEN "otp_delete" ELSE "otp_update"
       ELSE "otp_link"

\* receive_otp_for_link: web_user = get_user_by_email(email); where both
\* are found, tg_free, tg_paid, web_free and web_paid are what the handler
\* reads of them from here on; ok = FALSE is the lookup failing: web_user =
\* None and the handler takes the branch "Just link Telegram ID"
OtpGetWeb(t, ok) ==
    /\ tasks[t].pc = "otp_get_web"
    /\ \E web_user \in get_user_by_email(users, tasks[t].email, ok) :
         LET tg_user == tasks[t].tg_user
             branch == MergeBranch(tg_user, web_user)
         IN  tasks' = [tasks EXCEPT ![t] =
                IF branch = "otp_link"
                   THEN [tasks[t] EXCEPT !.pc = branch, !.tg_user = NoUser]
                   ELSE [tasks[t] EXCEPT !.pc = branch, !.tg_user = NoUser,
                            !.tg_free = tg_user.free_credits,
                            !.tg_paid = tg_user.paid_credits,
                            !.web_free = web_user.free_credits,
                            !.web_paid = web_user.paid_credits]]
    /\ UNCHANGED <<users, next_id, otp_codes, now, conv, user_data, topups, before>>

\* receive_otp_for_link: "Delete Telegram-only account if it exists"; ok =
\* FALSE is the delete raising, which is swallowed
OtpDelete(t, ok) ==
    /\ tasks[t].pc = "otp_delete"
    /\ users' = IF ok THEN delete_by_telegram_id(users, tasks[t].u) ELSE users
    /\ tasks' = [tasks EXCEPT ![t] = [tasks[t] EXCEPT !.pc = "otp_update"]]
    /\ UNCHANGED <<next_id, otp_codes, now, conv, user_data, topups, before>>

\* the merge forgetting the credits of the chat account
MutMergedDropsTg(tg_free, tg_paid, web_free, web_paid) ==
    <<web_free, web_paid>>

\* receive_otp_for_link: <<free, paid>> written to the web account
MergedCredits(tg_free, tg_paid, web_free, web_paid) ==
    <<web_free + tg_free, web_paid + tg_paid>>

\* receive_otp_for_link: "Update web account with Telegram ID and merged
\* credits"; ok = FALSE is the update raising: nothing catches it, the
\* handler ends in error_handler and the conversation keeps its state
OtpUpdate(t, ok) ==
    /\ tasks[t].pc = "otp_update"
    /\ LET sum == MergedCredits(tasks[t].tg_free, tasks[t].tg_paid,
                                tasks[t].web_free, tasks[t].web_paid)
       IN  IF ok
              THEN /\ users' = merge_update(users, tasks[t].email, tasks[t].u,
                                            sum[1], sum[2])
                   /\ conv' = [conv EXCEPT ![tasks[t].u][tasks[t].chat] = END]
                   /\ tasks' = [tasks EXCEPT ![t] = Done(tasks[t], "linked")]
              ELSE /\ tasks' = [tasks EXCEPT ![t] = Done(tasks[t], "error")]
                   /\ UNCHANGED <<users, conv>>
    /\ UNCHANGED <<next_id, otp_codes, now, user_data, topups, before>>

\* receive_otp_for_link: "Just link Telegram ID"; ok = FALSE is the update
\* raising: link_telegram_to_user returns False, which nobody reads
OtpLink(t, ok) ==
    /\ tasks[t].pc = "otp_link"
    /\ users' = IF ok THEN link_telegram_to_user(users, tasks[t].email, tasks[t].u)
                      ELSE users
    /\ conv' = [conv EXCEPT ![tasks[t].u][tasks[t].chat] = END]
    /\ tasks' = [tasks EXCEPT ![t] = Done(tasks[t], "linked")]
    /\ UNCHANGED <<next_id, otp_codes, now, user_data, topups, before>>

\* the cancellation that also spends the codes issued to the email of
\* the session
MutCancelSpendsCodes(t, u, c) ==
    /\ Free(t)
    /\ conv[u][c] \in {WAITING_FOR_EMAIL, WAITING_FOR_OTP}
    /\ conv' = [conv EXCEPT ![u][c] = END]
    /\ otp_codes' = [i \in DOMAIN otp_codes |->
          IF otp_codes[i].email = user_data[u]
             THEN [otp_codes[i] EXCEPT !.used = TRUE] ELSE otp_codes[i]]
    /\ tasks' = [tasks EXCEPT ![t] = Done(Dispatch("cancel_link", u, c), "cancelled")]
    /\ UNCHANGED <<users, next_id, now, user_data, topups>>
    /\ Remember

\* cancel_link: the fallback of link_handler, taken in an open conversation
cancel_link(t, u, c) ==
    /\ Free(t)
    /\ conv[u][c] \in {WAITING_FOR_EMAIL, WAITING_FOR_OTP}
    /\ conv' = [conv EXCEPT ![u][c] = END]
    /\ tasks' = [tasks EXCEPT ![t] = Done(Dispatch("cancel_link", u, c), "cancelled")]
    /\ UNCHANGED <<users, next_id, otp_codes, now, user_data, topups>>
    /\ Remember

\* the update has been processed: the slot is free for the next one
Return(t) ==
    /\ tasks[t].pc = "done"
    /\ tasks' = [tasks EXCEPT ![t] = EmptyTask]
    /\ before' = IF \A s \in Tasks \ {t} : tasks[s].pc = "idle"
                    THEN [users |-> users, topups |-> topups]
                    ELSE before
    /\ UNCHANGED <<users, next_id, otp_codes, now, conv, user_data, topups>>

\* ------------------------------------------------------------- environment
\* a purchase: an out-of-band write that adds one credit to paid_credits
TopUp(id) ==
    /\ topups < MaxTopUps
    /\ \E r \in users :
         /\ r.id = id
         /\ users' = (users \ {r}) \cup {[r EXCEPT !.paid_credits = @ + 1]}
    /\ topups' = topups + 1
    /\ before' = IF \A s \in Tasks : tasks[s].pc = "idle"
                    THEN [users |-> users', topups |-> topups']
                    ELSE before
    /\ UNCHANGED <<next_id, otp_codes, now, conv, user_data, tasks>>

\* a request served by the web surface: one read-modify-write of the
\* account that takes a credit, free first, and counts the query
WebSpend(id) ==
    /\ \E r \in users :
         /\ r.id = id
         /\ ~IsPlaceholder(r.email)
         /\ Total(r) > 0
         /\ LET new == Deduct(r.free_credits, r.paid_credits)
            IN  users' = (users \ {r}) \cup
                   {[r EXCEPT !.free_credits = new[1], !.paid_credits = new[2],
                              !.total_queries = @ + 1]}
    /\ before' = IF \A s \in Tasks : tasks[s].pc = "idle"
                    THEN [users |-> users', topups |-> topups]
                    ELSE before
    /\ UNCHANGED <<next_id, otp_codes, now, conv, user_data, tasks, topups>>

\* time passes
Tick ==
    /\ now + TickMinutes <= MaxTime
    /\ now' = now + TickMinutes
    /\ UNCHANGED <<users, next_id, otp_codes, conv, user_data, tasks, topups, before>>

\* ---------------------------------------------------------- specifications
\* the steps of the handlers that work on accounts, running in slot t; the
\* store answers
AccountSteps(t) ==
    \/ StartCreate(t, TRUE)
    \/ MsgCreate(t, TRUE)
    \/ MsgReread(t, TRUE)
    \/ \E generated \in BOOLEAN : MsgSpend(t, generated, TRUE)
    \/ OtpMark(t, TRUE)
    \/ OtpGetTg(t, TRUE)
    \/ OtpGetWeb(t, TRUE)
    \/ OtpDelete(t, TRUE)
    \/ OtpUpdate(t, TRUE)
    \/ OtpLink(t, TRUE)

\* the steps of the handler running in slot t
Steps(t) ==
    \/ AccountSteps(t)
    \/ EmailSave(t, TRUE)
    \/ \E sent \in BOOLEAN : EmailSend(t, sent)

\* an update of user u in chat c is dispatched to slot t
Dispatches(t, u, c, locals) ==
    \/ StartBegin(t, u, TRUE)
    \/ \E topic \in TopicInputs : MsgBegin(t, u, c, topic, TRUE)
    \/ link_command(t, u, c, TRUE)
    \/ \E raw \in EmailInputs(locals) : EmailBegin(t, u, c, raw, TRUE)
    \/ \E typed \in OtpInputs : OtpBegin(t, u, c, typed, TRUE)
    \/ cancel_link(t, u, c)

\* main() as written: Application handles one update at a time
\* (concurrent_updates is not set), so one slot is in use; the web surface
\* writes when it likes.  One user talks to the bot in one chat.
Next ==
    \/ Dispatches(1, "A", "c1", WebLocals)
    \/ Steps(1)
    \/ Return(1)
    \/ \E r \in users : TopUp(r.id)

Spec == Init /\ [][Next]_vars

\* the steps of the /start handler and of the /link dialogue in slot t
LinkSteps(t) ==
    \/ StartCreate(t, TRUE)
    \/ EmailSave(t, TRUE)
    \/ \E sent \in BOOLEAN : EmailSend(t, sent)
    \/ OtpMark(t, TRUE)
    \/ OtpGetTg(t, TRUE)
    \/ OtpGetWeb(t, TRUE)
    \/ OtpDelete(t, TRUE)
    \/ OtpUpdate(t, TRUE)
    \/ OtpLink(t, TRUE)

\* a /start, or an update of the /link dialogue, of user u in chat c
LinkDispatches(t, u, c, locals) ==
    \/ StartBegin(t, u, TRUE)
    \/ link_command(t, u, c, TRUE)
    \/ \E raw \in EmailInputs(locals) : EmailBegin(t, u, c, raw, TRUE)
    \/ \E typed \in OtpInputs : OtpBegin(t, u, c, typed, TRUE)
    \/ cancel_link(t, u, c)

\* as Spec, the user starting the bot and linking in two chats (a private
\* chat and a group): link_handler keeps one conversation per (chat, user),
\* user_data is per user
NextChats ==
    \/ \E c \in Chats : LinkDispatches(1, "A", c, WebLocals)
    \/ LinkSteps(1)
    \/ Return(1)

SpecChats == Init /\ [][NextChats]_vars

\* as Spec, the user starting the bot and linking in one chat; verify_otp
\* may fail at its select or at its update.  A handler that has been
\* dispatched runs on to its return (the event loop runs the coroutine, the
\* store answers in the end)
NextLink ==
    \/ LinkDispatches(1, "A", "c1", WebLocals)
    \/ LinkSteps(1)
    \/ \E typed \in OtpInputs : OtpBegin(1, "A", "c1", typed, FALSE)
    \/ OtpMark(1, FALSE)
    \/ Return(1)

SpecLink == Init /\ [][NextLink]_vars /\ WF_vars(LinkSteps(1))

\* as SpecLink, over a store where bob signed up on the web and may not
\* have verified the email yet
InitSignUps ==
    /\ \E f \in 0..MaxFree, verified \in BOOLEAN :
          users = {Row(1, WebEmail("bob"), NoTg, f, 0, 0, verified, Never),
                   Row(2, WebEmail("eve"), NoTg, 0, 0, 0, TRUE, Never)}
    /\ next_id = 3
    /\ otp_codes = <<>>
    /\ now = 0
    /\ conv = [u \in TgIds |-> [c \in Chats |-> END]]
    /\ user_data = [u \in TgIds |-> NoEmail]
    /\ tasks = [t \in Tasks |-> EmptyTask]
    /\ topups = 0
    /\ before = [users |-> users, topups |-> topups]

SpecSignUps == InitSignUps /\ [][NextLink]_vars

\* as SpecLink without the fairness, the store answering verify_otp and
\* the lookups and failing at will in the writes of the merge: the delete
\* of the placeholder account raises, or the update of the web account does
NextFail ==
    \/ LinkDispatches(1, "A", "c1", WebLocals)
    \/ LinkSteps(1)
    \/ OtpDelete(1, FALSE)
    \/ OtpUpdate(1, FALSE)
    \/ Return(1)

SpecFail == Init /\ [][NextFail]_vars

\* an access of the handler in slot t that the store does not answer (it is
\* not configured, or the call raises), for an update of user u in chat c
\* or for the step the handler is at
StoreFailures(t, u, c, locals) ==
    \/ StartBegin(t, u, FALSE)
    \/ StartCreate(t, FALSE)
    \/ \E topic \in TopicInputs : MsgBegin(t, u, c, topic, FALSE)
    \/ MsgCreate(t, FALSE)
    \/ MsgReread(t, FALSE)
    \/ \E generated \in BOOLEAN : MsgSpend(t, generated, FALSE)
    \/ link_command(t, u, c, FALSE)
    \/ \E raw \in EmailInputs(locals) : EmailBegin(t, u, c, raw, FALSE)
    \/ EmailSave(t, FALSE)
    \/ \E typed \in OtpInputs : OtpBegin(t, u, c, typed, FALSE)
    \/ OtpMark(t, FALSE)
    \/ OtpGetTg(t, FALSE)
    \/ OtpGetWeb(t, FALSE)
    \/ OtpDelete(t, FALSE)
    \/ OtpUpdate(t, FALSE)
    \/ OtpLink(t, FALSE)

\* as Spec without the purchases, over a store that may fail at every
\* access, the lookups included
NextOutage ==
    \/ Dispatches(1, "A", "c1", {"bob"})
    \/ Steps(1)
    \/ StoreFailures(1, "A", "c1", {"bob"})
    \/ Return(1)

SpecOutage == Init /\ [][NextOutage]_vars

\* as Spec, two users starting the bot and linking, each in one chat; the
\* insert of an OTP record may fail
NextUsers ==
    \/ \E u \in TgIds : LinkDispatches(1, u, "c1", WebLocals)
    \/ LinkSteps(1)
    \/ EmailSave(1, FALSE)
    \/ Return(1)

SpecUsers == Init /\ [][NextUsers]_vars

\* as Spec with the clock running and one web account in play: the life of
\* OTP records
NextOtp ==
    \/ Dispatches(1, "A", "c1", {"bob"})
    \/ Steps(1)
    \/ Return(1)
    \/ Tick

SpecOtp == Init /\ [][NextOtp]_vars

\* Updates handled concurrently (several bot processes on one store, or
\* concurrent_updates): every slot handles one update of user A, a /start,
\* a topic or a code, and the steps of the handlers interleave.  The runs
\* start in the states Spec reaches by: [/start], [/link, bob's address,
\* code 111111 saved and sent]; RaceStartReached says so.
InitRace ==
    \E hasT \in BOOLEAN, linking \in BOOLEAN, f \in 0..MaxFree, p \in {0} :
       /\ users = InitUsers(f) \cup
            (IF hasT THEN {Row(3, PlaceholderEmail("A"), "A", 1, p, 0, FALSE, Never)}
                     ELSE {})
       /\ next_id = IF hasT THEN 4 ELSE 3
       /\ topups = p
       /\ otp_codes = IF linking
             THEN <<OtpRow(WebEmail("bob"), "111111", OtpTtlMinutes, FALSE)>>
             ELSE <<>>
       /\ conv = [u \in TgIds |-> [c \in Chats |->
             IF linking /\ u = "A" /\ c = "c1" THEN WAITING_FOR_OTP ELSE END]]
       /\ user_data = [u \in TgIds |->
             IF linking /\ u = "A" THEN WebEmail("bob") ELSE NoEmail]
       /\ now = 0
       /\ tasks = [t \in Tasks |-> EmptyTask]
       /\ before = [users |-> users, topups |-> topups]

NextRace ==
    \/ \E t \in Tasks, c \in Chats :
          \/ StartBegin(t, "A", TRUE)
          \/ MsgBegin(t, "A", c, Topic(MinTopicLen, FALSE), TRUE)
          \/ \E code \in Codes : OtpBegin(t, "A", c, OtpText(code, OtpLen, TRUE), TRUE)
    \/ \E t \in Tasks : AccountSteps(t)
    \/ \E r \in users : r.email # WebEmail("eve") /\ TopUp(r.id)

SpecRace == InitRace /\ [][NextRace]_vars

\* Both surfaces at work on one account: user A, whose chat identity is
\* bound to bob's web account, sends topics to the bot while the web surface
\* serves requests and takes purchases.  The runs start in the states Spec
\* reaches by [/start, /link, bob's address, code 111111, the merge];
\* WebStartReached says so.
InitWeb ==
    \E f \in 0..MaxFree :
       /\ users = {Row(1, WebEmail("bob"), "A", f + 1, 0, 0, TRUE, Never),
                   Row(2, WebEmail("eve"), NoTg, 0, 0, 0, TRUE, Never)}
       /\ next_id = 4
       /\ otp_codes = <<OtpRow(WebEmail("bob"), "111111", OtpTtlMinutes, TRUE)>>
       /\ now = 0
       /\ conv = [u \in TgIds |-> [c \in Chats |-> END]]
       /\ user_data = [u \in TgIds |-> IF u = "A" THEN WebEmail("bob") ELSE NoEmail]
       /\ tasks = [t \in Tasks |-> EmptyTask]
       /\ topups = 0
       /\ before = [users |-> users, topups |-> topups]

NextWeb ==
    \/ \E topic \in TopicInputs : MsgBegin(1, "A", "c1", topic, TRUE)
    \/ \E generated \in BOOLEAN : MsgSpend(1, generated, TRUE)
    \/ Return(1)
    \/ \E r \in users : TopUp(r.id)
    \/ \E r \in users : WebSpend(r.id)

SpecWeb == InitWeb /\ [][NextWeb]_vars

\* ------------------------------------------------------------ the claims
\* the handler of slot t has returned
Returned(t, handler) == tasks[t].pc = "done" /\ tasks[t].handler = handler

\* the rows of the table tbl bound to chat identity u, and those of email e
RowsOfTg(tbl, u) == {r \in tbl : r.telegram_id = u}
RowsOfEmail(tbl, e) == {r \in tbl : r.email = e}

\* the states SpecRace starts in are states of Spec
RaceStartReached ==
    /\ tasks[1].pc = "idle"
    /\ conv["A"]["c1"] = WAITING_FOR_OTP
    /\ user_data["A"] = WebEmail("bob")
    /\ otp_codes = <<OtpRow(WebEmail("bob"), "111111", OtpTtlMinutes, FALSE)>>
    /\ \E f \in 0..MaxFree :
         users = InitUsers(f) \cup
            {Row(3, PlaceholderEmail("A"), "A", 1, 0, 0, FALSE, Never)}

\* the states SpecWeb starts in are states of Spec
WebStartReached ==
    /\ tasks[1].pc = "idle"
    /\ next_id = 4
    /\ otp_codes = <<OtpRow(WebEmail("bob"), "111111", OtpTtlMinutes, TRUE)>>
    /\ conv = [u \in TgIds |-> [c \in Chats |-> END]]
    /\ user_data["A"] = WebEmail("bob")
    /\ topups = 0
    /\ \E f \in 0..MaxFree :
         users = {Row(1, WebEmail("bob"), "A", f + 1, 0, 0, TRUE, Never),
                  Row(2, WebEmail("eve"), NoTg, 0, 0, 0, TRUE, Never)}

\* C1 (merge conservation).  When receive_otp_for_link has linked chat
\* identity u to the email e with no purchase in between, and before it the
\* account T of u was a placeholder account and W, another row, the account
\* of e: W now holds T's plus W's free credits and T's plus W's paid
\* credits, W is bound to u, and T's row is gone.
C1_MergeConservation ==
    \A t \in Tasks :
       ( /\ Returned(t, "receive_otp_for_link")
         /\ tasks[t].out = "linked"
         /\ before.topups = topups )
       => \A T \in RowsOfTg(before.users, tasks[t].u) :
          \A W \in RowsOfEmail(before.users, tasks[t].email) :
             (IsPlaceholder(T.email) /\ W.id # T.id)
             => /\ \E W2 \in users :
                     /\ W2.id = W.id
                     /\ W2.free_credits = T.free_credits + W.free_credits
                     /\ W2.paid_credits = T.paid_credits + W.paid_credits
                     /\ W2.telegram_id = tasks[t].u
                /\ \A r \in users : r.id # T.id

\* a merge has returned that moved credits of both kinds
C1_Witness ==
    \E t \in Tasks :
       /\ Returned(t, "receive_otp_for_link")
       /\ tasks[t].out = "linked"
       /\ before.topups = topups
       /\ \E T \in RowsOfTg(before.users, tasks[t].u) :
          \E W \in RowsOfEmail(before.users, tasks[t].email) :
             /\ IsPlaceholder(T.email) /\ W.id # T.id
             /\ T.free_credits > 0 /\ T.paid_credits > 0 /\ W.free_credits > 0
             /\ \E W2 \in users : W2.id = W.id /\ Total(W2) = Total(T) + Total(W)

\* the slots whose handler is handle_message and has returned, and those of
\* them that were accepted (generation was called and a credit deducted)
Spends == {t \in Tasks : Returned(t, "handle_message")}
Accepted == {t \in Spends : tasks[t].out = "answered"}
Rejected == {t \in Spends : tasks[t].out = "no_credits"}
Merges == {t \in Tasks : Returned(t, "receive_otp_for_link") /\ tasks[t].out = "linked"}

\* C2 (the merge is atomic with respect to spends).  When one merge of the
\* placeholder account T of u into the account W of e and spends of u, begun
\* in any order and interleaved in any way, have all returned and nothing
\* was purchased meanwhile: T is gone and W holds T's total plus W's total
\* as they were before, minus one credit per accepted spend.
C2_MergeAtomicWithSpends ==
    ( /\ \A t \in Tasks : tasks[t].pc = "done"
      /\ Cardinality(Merges) = 1
      /\ Merges \cup Spends = Tasks
      /\ before.topups = topups )
    => \A m \in Merges :
       \A T \in RowsOfTg(before.users, tasks[m].u) :
       \A W \in RowsOfEmail(before.users, tasks[m].email) :
          (IsPlaceholder(T.email) /\ W.id # T.id)
          => /\ \A r \in users : r.id # T.id
             /\ \E W2 \in users :
                  /\ W2.id = W.id
                  /\ Total(W2) = Total(T) + Total(W) - Cardinality(Accepted)

\* C3 (no overdraw).  When every slot has handled a topic of user u, whose
\* one account held c credits before, c less than the number of slots, and
\* nothing was purchased meanwhile: c of the requests were accepted, the
\* others were answered "no credits", and the account holds 0.
C3_NoOverdraw ==
    \A acct \in before.users :
       ( /\ Spends = Tasks
         /\ \A t \in Tasks : tasks[t].u = acct.telegram_id
         /\ RowsOfTg(before.users, acct.telegram_id) = {acct}
         /\ Total(acct) < MaxTasks
         /\ before.topups = topups )
       => /\ Cardinality(Accepted) = Total(acct)
          /\ Cardinality(Rejected) = MaxTasks - Total(acct)
          /\ \A r \in users : r.id = acct.id => Total(r) = 0

\* C4 (invariant I3).  No account ever holds a negative number of free or
\* of paid credits, however account creations, spends, merges and purchases
\* interleave.
C4_CreditsNonNegative ==
    \A r \in users : r.free_credits >= 0 /\ r.paid_credits >= 0

\* two requests that overlapped were both accepted on an account that held
\* one credit, and the account holds 0
C4_Witness ==
    /\ Cardinality(Accepted) >= 2
    /\ \E acct \in before.users :
         /\ acct.telegram_id = "A"
         /\ Total(acct) = 1
         /\ \E r \in users : r.id = acct.id /\ Total(r) = 0

\* verify_otp has returned True to the handler of slot t
Verified(t) ==
    /\ tasks[t].handler = "receive_otp_for_link"
    /\ \/ tasks[t].pc \in {"otp_get_tg", "otp_get_web", "otp_delete",
                           "otp_update", "otp_link"}
       \/ tasks[t].pc = "done" /\ tasks[t].out = "linked"

\* C5 (OTP single use).  Of the verify calls made with one email and one
\* code while a single record of that email and code exists, at most one
\* returns True.
C5_OtpSingleUse ==
    \A t1 \in Tasks : \A t2 \in Tasks \ {t1} :
       ( /\ Verified(t1) /\ Verified(t2)
         /\ tasks[t1].email = tasks[t2].email
         /\ tasks[t1].otp = tasks[t2].otp )
       => Cardinality({i \in DOMAIN otp_codes :
                          /\ otp_codes[i].email = tasks[t1].email
                          /\ otp_codes[i].otp = tasks[t1].otp}) > 1

\* ----- steps of verify_otp, seen as transitions
\* in this step the handler of slot t is dispatched and calls verify_otp
VerifyCalled(t) ==
    /\ tasks[t].pc = "idle"
    /\ tasks'[t].handler = "receive_otp_for_link"
    /\ tasks'[t].out \notin {"session_expired", "invalid_otp_format"}

\* ... and verify_otp finds a record it accepts / returns False
VerifyPassed(t) == tasks'[t].pc = "otp_mark"
VerifyFailed(t) == tasks'[t].pc = "done" /\ tasks'[t].out = "invalid_or_expired"

\* the records of an email and a code, and those of them not yet used
Records(email, otp) ==
    {i \in DOMAIN otp_codes : otp_codes[i].email = email /\ otp_codes[i].otp = otp}
Unused(email, otp) == {i \in Records(email, otp) : ~otp_codes[i].used}

C6_Step(t) ==
    /\ VerifyCalled(t) =>
         \A i \in DOMAIN otp_codes :
            Unused(tasks'[t].email, tasks'[t].otp) = {i} =>
               IF now <= otp_codes[i].expires_at
                  THEN VerifyPassed(t) /\ tasks'[t].rec = i
                  ELSE VerifyFailed(t) /\ otp_codes' = otp_codes
    /\ (tasks[t].pc = "otp_mark" /\ tasks'[t] # tasks[t]) =>
         /\ otp_codes'[tasks[t].rec].used
         /\ tasks'[t].pc = "otp_get_tg"
    /\ (tasks[t].pc = "email_save" /\ tasks'[t] # tasks[t]) =>
         /\ Len(otp_codes') = Len(otp_codes) + 1
         /\ otp_codes'[Len(otp_codes')].expires_at = now + OtpTtlMinutes

\* C6 (OTP expiry).  A record expires 10 minutes after it was issued.  A
\* verify call with the email and the code of one unused record passes, and
\* marks the record used, when the time is at or before expires_at; it
\* fails when the time is after expires_at, and then leaves the records as
\* they are.
C6_OtpExpiry == [][\A t \in Tasks : C6_Step(t)]_vars

\* a verify call has just failed on an unused record because it is expired
C6_Witness ==
    \E t \in Tasks : \E i \in DOMAIN otp_codes :
       /\ Returned(t, "receive_otp_for_link")
       /\ tasks[t].out = "invalid_or_expired"
       /\ Unused(tasks[t].email, tasks[t].otp) = {i}
       /\ now = otp_codes[i].expires_at + TickMinutes

C7_Step(t) ==
    /\ \A i \in DOMAIN otp_codes :
          /\ i \in DOMAIN otp_codes'
          /\ otp_codes[i].used => otp_codes'[i].used
    /\ \A i \in DOMAIN otp_codes' \ DOMAIN otp_codes : ~otp_codes'[i].used
    /\ VerifyCalled(t) =>
         \A i \in DOMAIN otp_codes :
            ( /\ Records(tasks'[t].email, tasks'[t].otp) = {i}
              /\ otp_codes[i].used )
            => VerifyFailed(t) /\ otp_codes' = otp_codes

\* C7 (the used flag is monotone).  A record is inserted unused; no step
\* makes a used record unused; a verify call with the email and the code of
\* a record that is used, the only record of that email and code, fails.
C7_UsedMonotone == [][\A t \in Tasks : C7_Step(t)]_vars

\* a verify call has just failed on a record that an earlier call used and
\* that is not expired
C7_Witness ==
    \E t \in Tasks : \E i \in DOMAIN otp_codes :
       /\ Returned(t, "receive_otp_for_link")
       /\ tasks[t].out = "invalid_or_expired"
       /\ Records(tasks[t].email, tasks[t].otp) = {i}
       /\ otp_codes[i].used
       /\ now <= otp_codes[i].expires_at

\* C8 (verify succeeds iff a valid record exists).  A verify call passes
\* exactly when some record of the email and the code is unused and not
\* expired at the time of the call.
C8_VerifyIffValidRecord ==
    [][\A t \in Tasks :
          VerifyCalled(t) =>
             ( VerifyPassed(t) <=>
               \E i \in Unused(tasks'[t].email, tasks'[t].otp) :
                  now <= otp_codes[i].expires_at )]_vars

\* C9 (invariant I2).  At most one account has a given chat identity.
C9_OneAccountPerChatIdentity ==
    \A u \in TgIds : Cardinality(RowsOfTg(users, u)) <= 1

\* C10 (inconsistent state is reported).  When the handler of a code was
\* dispatched while the user's account T was not a placeholder account and
\* the account W of the email was another one, and it has returned with no
\* other handler in between: it has not answered that the accounts are
\* linked, and W is as it was.
C10_InconsistentStateReported ==
    \A t \in Tasks :
       ( /\ Returned(t, "receive_otp_for_link")
         /\ tasks[t].out \notin {"session_expired", "invalid_otp_format",
                                  "invalid_or_expired"}
         /\ before.topups = topups )
       => \A T \in RowsOfTg(before.users, tasks[t].u) :
          \A W \in RowsOfEmail(before.users, tasks[t].email) :
             (~IsPlaceholder(T.email) /\ W.id # T.id)
             => /\ tasks[t].out # "linked"
                /\ W \in users

\* ----- the /link dialogue and the accounts
LinkHandlers ==
    {"link_command", "receive_email_for_link", "receive_otp_for_link", "cancel_link"}

\* slot t takes a step of a handler of the /link dialogue
LinkStep(t) ==
    /\ tasks'[t] # tasks[t]
    /\ tasks[t].handler \in LinkHandlers \/ tasks'[t].handler \in LinkHandlers

\* how far receive_otp_for_link has come after verify_otp's select
Stage(pc) ==
    CASE pc = "otp_mark" -> 1
      [] pc = "otp_get_tg" -> 2
      [] pc = "otp_get_web" -> 3
      [] pc = "otp_delete" -> 4
      [] pc \in {"otp_update", "otp_link"} -> 5
      [] pc = "done" -> 6
      [] OTHER -> 0

C11_Step(t) ==
    /\ (LinkStep(t) /\ users' # users) =>
         /\ tasks[t].handler = "receive_otp_for_link"
         /\ tasks[t].pc \in {"otp_delete", "otp_update", "otp_link"}
         /\ tasks[t].rec \in DOMAIN otp_codes
         /\ otp_codes[tasks[t].rec].used
         /\ otp_codes[tasks[t].rec].email = tasks[t].email
         /\ otp_codes[tasks[t].rec].otp = tasks[t].otp
         /\ \A r \in users' \ users :
               r.email = tasks[t].email /\ r.telegram_id = tasks[t].u
         /\ \A r \in users \ users' :
               r.email = tasks[t].email \/ r.telegram_id = tasks[t].u
    /\ (LinkStep(t) /\ Stage(tasks[t].pc) \in 1..5) =>
         /\ Stage(tasks'[t].pc) > Stage(tasks[t].pc)
         /\ Stage(tasks[t].pc) < 5 =>
              /\ Stage(tasks'[t].pc) <= 5
              /\ tasks'[t].u = tasks[t].u
              /\ tasks'[t].email = tasks[t].email
         /\ Stage(tasks[t].pc) = 5 =>
              /\ tasks'[t].out = "linked"
              /\ \A r \in users' : r.email = tasks[t].email =>
                                      r.telegram_id = tasks[t].u

\* C11 (the link flow writes only after a verification).  A step of the
\* /link dialogue changes the accounts only in a handler that has verified
\* and marked used a record of the email and the code it was given, and
\* then only rows of that email or of the user; a handler that has verified
\* a code goes on to exactly one write that binds the accounts of the
\* verified email to the verifying user, and answers that they are linked.
C11_LinkOnlyAfterVerification == [][\A t \in Tasks : C11_Step(t)]_vars

\* a code was verified and marked used, and the account of its email is
\* bound to the user who typed it
C11_Witness ==
    \E t \in Tasks : \E i \in DOMAIN otp_codes : \E r \in users :
       /\ Returned(t, "receive_otp_for_link")
       /\ tasks[t].out = "linked"
       /\ otp_codes[i].used
       /\ otp_codes[i].email = tasks[t].email
       /\ otp_codes[i].otp = tasks[t].otp
       /\ r.email = tasks[t].email
       /\ r.telegram_id = tasks[t].u

\* C12 (T absent: the merge only binds).  When the user had no account
\* before a code was accepted, with no purchase meanwhile, the accounts
\* afterwards are those before with telegram_id of the rows of the email
\* set to the user: credits are as they were, no row is added or removed.
C12_AbsentTOnlyBinds ==
    \A t \in Tasks :
       ( /\ Returned(t, "receive_otp_for_link")
         /\ tasks[t].out = "linked"
         /\ RowsOfTg(before.users, tasks[t].u) = {}
         /\ before.topups = topups )
       => users = {IF r.email = tasks[t].email
                      THEN [r EXCEPT !.telegram_id = tasks[t].u]
                      ELSE r : r \in before.users}

\* a user without an account linked a web account that holds a credit
C12_Witness ==
    \E t \in Tasks : \E W \in before.users :
       /\ Returned(t, "receive_otp_for_link")
       /\ tasks[t].out = "linked"
       /\ RowsOfTg(before.users, tasks[t].u) = {}
       /\ before.topups = topups
       /\ W.email = tasks[t].email
       /\ W.free_credits > 0
       /\ [W EXCEPT !.telegram_id = tasks[t].u] \in users

\* C13 (idempotent re-link).  Every /link of a user whose accounts are all
\* linked ones (they carry the email of a web account) answers with the
\* existing binding, leaves the conversation closed and changes no account and no
\* OTP record, however often it is repeated.
C13_RelinkIdempotent ==
    [][\A t \in Tasks :
          ( /\ tasks[t].pc = "idle"
            /\ tasks'[t].handler = "link_command"
            /\ RowsOfTg(users, tasks'[t].u) # {}
            /\ \A r \in RowsOfTg(users, tasks'[t].u) : r.email \in WebEmails )
          => /\ tasks'[t].pc = "done"
             /\ tasks'[t].out = "already_linked"
             /\ conv'[tasks'[t].u][tasks'[t].chat] = END
             /\ users' = users
             /\ otp_codes' = otp_codes
             /\ user_data' = user_data]_vars

\* /link of a linked user has just answered with the existing binding
C13_Witness ==
    \E t \in Tasks :
       /\ Returned(t, "link_command")
       /\ tasks[t].out = "already_linked"
       /\ \E r \in RowsOfTg(users, tasks[t].u) : r.email \in WebEmails
       /\ conv[tasks[t].u][tasks[t].chat] = END

\* C14 (deduction order).  When a topic was answered, with no other
\* handler and no purchase in between, the account the user had before has
\* one free credit less and the same paid credits if it had a free credit,
\* and else one paid credit less; total_queries is one more and
\* last_query_at is the time of the request.
C14_DeductionOrder ==
    \A t \in Tasks :
       ( /\ Returned(t, "handle_message")
         /\ tasks[t].out = "answered"
         /\ before.topups = topups )
       => \A acct \in RowsOfTg(before.users, tasks[t].u) :
          \E r \in users :
             /\ r.id = acct.id
             /\ acct.free_credits > 0 =>
                  /\ r.free_credits = acct.free_credits - 1
                  /\ r.paid_credits = acct.paid_credits
             /\ acct.free_credits = 0 =>
                  /\ r.free_credits = 0
                  /\ r.paid_credits = acct.paid_credits - 1
             /\ r.total_queries = acct.total_queries + 1
             /\ r.last_query_at = now

\* a topic was answered on an account without free credits: a paid credit
\* went
C14_Witness ==
    \E t \in Tasks : \E acct \in RowsOfTg(before.users, tasks[t].u) :
       /\ Returned(t, "handle_message")
       /\ tasks[t].out = "answered"
       /\ before.topups = topups
       /\ acct.free_credits = 0
       /\ acct.paid_credits > 0
       /\ \E r \in users : r.id = acct.id /\ Total(r) = Total(acct) - 1

\* C15 (no credits: rejected before generation).  A topic of a user whose
\* account holds no credit is answered "no credits" in the step that reads
\* the account, whatever its length: generate_questions is not called and
\* no account changes.  (A text that begins with '/' is no request to
\* handle_message: it is dropped unread.)
C15_NoCreditsRejected ==
    [][\A t \in Tasks :
          ( /\ tasks[t].pc = "idle"
            /\ tasks'[t].handler = "handle_message"
            /\ ~tasks'[t].slash
            /\ RowsOfTg(users, tasks'[t].u) # {}
            /\ \A r \in RowsOfTg(users, tasks'[t].u) : Total(r) = 0 )
          => /\ tasks'[t].pc = "done"
             /\ tasks'[t].out = "no_credits"
             /\ tasks'[t].questions = ""
             /\ users' = users]_vars

\* a topic has just been refused for want of credits
C15_Witness ==
    \E t \in Tasks :
       /\ Returned(t, "handle_message")
       /\ tasks[t].out = "no_credits"
       /\ tasks[t].questions = ""
       /\ \E r \in RowsOfTg(users, tasks[t].u) :
             Total(r) = 0 /\ r.total_queries > 0

\* C16 (purchases are not lost to a spend).  When a topic was answered
\* and, since it arrived, only the account the user had before was written
\* to (by the spend, and by purchases that each add one paid credit), the
\* account holds its total before, plus the credits purchased, minus 1, and
\* total_queries is one more.
C16_TopUpsNotLost ==
    \A t \in Tasks :
       ( /\ Returned(t, "handle_message")
         /\ tasks[t].out = "answered" )
       => \A acct \in RowsOfTg(before.users, tasks[t].u) :
          (\A o \in before.users : o.id # acct.id => o \in users)
          => \E r \in users :
                /\ r.id = acct.id
                /\ Total(r) = Total(acct) + (topups - before.topups) - 1
                /\ r.total_queries = acct.total_queries + 1

\* C17 (the spend follows the generation, failed or not).  The step a
\* handler takes once it has accepted a topic is the generation call
\* followed by the write: whether the call gave questions or the text of an
\* error, that text is sent, and the accounts of the user then hold one
\* credit less than the handler read, with total_queries one more.
C17_SpendAfterGeneration ==
    [][\A t \in Tasks :
          (tasks[t].pc = "msg_generate" /\ tasks'[t] # tasks[t])
          => /\ tasks'[t].pc = "done"
             /\ tasks'[t].out = "answered"
             /\ tasks'[t].questions \in {"questions", "error_text"}
             /\ RowsOfTg(users', tasks[t].u) # {}
             /\ \A r \in RowsOfTg(users', tasks[t].u) :
                   /\ Total(r) = tasks[t].free + tasks[t].paid - 1
                   /\ r.total_queries = tasks[t].total_queries + 1]_vars

\* the generation failed, its error text was sent, and the credit is gone
C17_Witness ==
    \E t \in Tasks : \E acct \in RowsOfTg(before.users, tasks[t].u) :
       /\ Returned(t, "handle_message")
       /\ tasks[t].out = "answered"
       /\ tasks[t].questions = "error_text"
       /\ before.topups = topups
       /\ \E r \in users : r.id = acct.id /\ Total(r) = Total(acct) - 1

\* the texts typed as a code that are not exactly six ASCII digits
NotSixAsciiDigits == {"12345", "12345a", SixOtherDigits}

\* a topic was refused for its length: the accounts there were when it
\* arrived are as they were
TopicRefusedLeavesAccounts ==
    \A t \in Tasks :
       ( /\ Returned(t, "handle_message")
         /\ tasks[t].out \in {"topic_too_short", "topic_too_long"}
         /\ before.topups = topups )
       => \A r \in before.users : r \in users

C18_Step(t) ==
    /\ ( /\ tasks'[t] # tasks[t]
         /\ tasks'[t].handler = "handle_message"
         /\ tasks'[t].out \in {"topic_too_short", "topic_too_long"} )
       => /\ users' = users /\ otp_codes' = otp_codes
          /\ conv' = conv
    /\ ( /\ tasks[t].pc = "idle"
         /\ tasks'[t].handler = "receive_email_for_link"
         /\ ~HasMarkers(tasks'[t].email) )
       => /\ users' = users /\ otp_codes' = otp_codes
          /\ conv' = conv
          /\ tasks'[t].pc = "done"
    /\ ( /\ tasks[t].pc = "idle"
         /\ tasks'[t].handler = "receive_otp_for_link"
         /\ user_data[tasks'[t].u] # NoEmail
         /\ tasks'[t].otp \in NotSixAsciiDigits )
       => /\ users' = users /\ otp_codes' = otp_codes
          /\ conv' = conv
          /\ tasks'[t].pc = "done"

\* C18 (validation errors change nothing).  An email without the markers,
\* a code that is not exactly six ASCII digits, and a topic refused for its
\* length leave the accounts and the OTP records as they were, and the
\* conversation in the state it was in.
C18_ValidationMutatesNothing ==
    [][(\A t \in Tasks : C18_Step(t)) /\ TopicRefusedLeavesAccounts']_vars

C19_Step(t) ==
    /\ ( /\ tasks[t].pc = "idle"
         /\ tasks'[t].handler = "receive_email_for_link"
         /\ HasMarkers(tasks'[t].email) )
       => LET u == tasks'[t].u
              rows == RowsOfEmail(users, tasks'[t].email)
          IN  /\ rows = {} =>
                   /\ tasks'[t].pc = "done"
                   /\ tasks'[t].out = "no_account"
                   /\ conv' = conv
              /\ (rows # {} /\ \A r \in rows : r.telegram_id \notin {NoTg, u}) =>
                   /\ tasks'[t].pc = "done"
                   /\ tasks'[t].out = "linked_elsewhere"
                   /\ conv' = [conv EXCEPT ![u][tasks'[t].chat] = END]
              /\ otp_codes' = otp_codes
    /\ (tasks'[t] # tasks[t] /\ tasks'[t].pc \in {"email_save", "email_send"}) =>
         \E r \in RowsOfEmail(users, tasks'[t].email) :
            r.telegram_id \in {NoTg, tasks'[t].u}
    /\ (tasks'[t] # tasks[t] /\ otp_codes' # otp_codes /\ tasks[t].pc # "otp_mark") =>
         /\ tasks[t].pc = "email_save"
         /\ tasks[t].handler = "receive_email_for_link"

\* C19 (when a code is issued).  In the state waiting for the email, an
\* email of no account is refused and the conversation stays in that
\* state; an email whose accounts are bound to another user ends the
\* conversation; in both cases no OTP record is inserted.  A record is
\* inserted, and the mail sent, only by a handler whose email names an
\* account bound to nobody or to the user.
C19_OtpIssuedOnlyForAvailableAccount == [][\A t \in Tasks : C19_Step(t)]_vars

\* a user gave the email of an account bound to another user: the
\* conversation is over and no record was made for it
C19_Witness ==
    \E t \in Tasks :
       /\ Returned(t, "receive_email_for_link")
       /\ tasks[t].out = "linked_elsewhere"
       /\ conv[tasks[t].u][tasks[t].chat] = END
       /\ \E r \in RowsOfEmail(users, tasks[t].email) :
             r.telegram_id \notin {NoTg, tasks[t].u}
       /\ \A i \in DOMAIN otp_codes :
             otp_codes[i].email = tasks[t].email => otp_codes[i].used

\* the record of the code that handler t generated is in the store
Persisted(codes, t) ==
    \E i \in DOMAIN codes :
       codes[i].email = tasks[t].email /\ codes[i].otp = tasks[t].otp

C20_Step ==
    /\ \A u \in TgIds, c \in Chats :
         (conv'[u][c] = WAITING_FOR_OTP /\ conv[u][c] # WAITING_FOR_OTP) =>
            \E t \in Tasks :
               /\ tasks[t].handler = "receive_email_for_link"
               /\ tasks[t].pc = "email_send"
               /\ tasks[t].u = u /\ tasks[t].chat = c
               /\ conv[u][c] = WAITING_FOR_EMAIL
               /\ Persisted(otp_codes, t)
               /\ tasks'[t].out = "otp_sent"
               /\ user_data'[u] = tasks[t].email
    /\ \A t \in Tasks :
         /\ ( /\ tasks[t].pc = "email_save"
              /\ tasks'[t] # tasks[t]
              /\ otp_codes' = otp_codes )
            => tasks'[t].pc = "done" /\ tasks'[t].out = "otp_failed"
         /\ ( /\ tasks[t].pc = "email_send"
              /\ tasks'[t] # tasks[t]
              /\ tasks'[t].out # "otp_sent" )
            => tasks'[t].pc = "done" /\ tasks'[t].out = "otp_failed"
         /\ ( /\ tasks[t].pc \in {"email_save", "email_send"}
              /\ tasks'[t].out = "otp_failed" )
            => /\ conv' = conv
               /\ conv[tasks[t].u][tasks[t].chat] = WAITING_FOR_EMAIL
               /\ user_data' = user_data

\* C20 (all or nothing of issuing a code).  A conversation enters the
\* state waiting for the code only by the step of receive_email_for_link
\* in which the mail was sent, the record of the code being in the store,
\* and that step stores the email in the session.  When the insert fails or
\* the mail is not sent, the handler reports the failure and the
\* conversation stays in the state waiting for the email.
C20_AwaitingCodeOnlyAfterIssuance == [][C20_Step]_vars

\* one user was sent a code and waits to type it; the other was told that
\* the OTP failed, no record having been written, and is still asked for
\* the email
C20_Witness ==
    \E t \in Tasks, v \in TgIds, c \in Chats :
       /\ Returned(t, "receive_email_for_link")
       /\ tasks[t].out = "otp_failed"
       /\ ~Persisted(otp_codes, t)
       /\ conv[tasks[t].u][tasks[t].chat] = WAITING_FOR_EMAIL
       /\ v # tasks[t].u
       /\ conv[v][c] = WAITING_FOR_OTP
       /\ \E i \in DOMAIN otp_codes : otp_codes[i].email = user_data[v]

\* the texts of six characters that receive_otp_for_link takes for a code
SixDigitTexts == {x.code : x \in {y \in OtpInputs : y.len = OtpLen /\ y.digits}}

\* handler t works on a code of six digits
VerifyingSix(t) ==
    /\ tasks[t].handler = "receive_otp_for_link"
    /\ tasks[t].otp \in SixDigitTexts

C21_Step(t) ==
    /\ ( /\ tasks'[t] # tasks[t]
         /\ tasks'[t].pc = "done"
         /\ tasks'[t].handler = "receive_otp_for_link"
         /\ tasks'[t].otp \in SixDigitTexts )
       => /\ conv'[tasks'[t].u][tasks'[t].chat] = END
          /\ tasks'[t].out \in {"linked", "invalid_or_expired"}
          /\ tasks'[t].out = "invalid_or_expired" => users' = users
          /\ tasks'[t].out = "linked" =>
                \E r \in users' :
                   r.email = tasks'[t].email /\ r.telegram_id = tasks'[t].u
    /\ ( /\ tasks[t].pc = "idle"
         /\ tasks'[t].handler = "link_command" )
       => LET u == tasks'[t].u
              c == tasks'[t].chat
          IN  \/ tasks'[t].out = "ask_email" /\ conv'[u][c] = WAITING_FOR_EMAIL
              \/ tasks'[t].out = "already_linked" /\ conv'[u][c] = END

\* C21 (a code ends the conversation).  A handler of receive_otp_for_link
\* given six digits returns, and when it returns the conversation is over:
\* either the code was verified and the account of the email is bound to
\* the user, or it was not and no account changed.  In a conversation that
\* is over, /link is taken again, and it asks for the email or reports the
\* binding.
C21_SixDigitsEndConversation ==
    /\ [][\A t \in Tasks : C21_Step(t)]_vars
    /\ \A t \in Tasks, u \in TgIds, c \in Chats :
          /\ ( /\ VerifyingSix(t) /\ tasks[t].pc \notin {"idle", "done"}
               /\ tasks[t].u = u /\ tasks[t].chat = c )
             ~> (Returned(t, "receive_otp_for_link") /\ conv[u][c] = END)
          /\ []((Free(t) /\ conv[u][c] = END /\ u = "A" /\ c = "c1")
                  => ENABLED link_command(t, u, c, TRUE))

\* a code of six digits was verified and the conversation ended with the
\* account bound; it was the second conversation of the user: the first one
\* had a code issued too, ended without using it, and /link was taken again
C21_Witness ==
    \E t \in Tasks :
       /\ Returned(t, "receive_otp_for_link")
       /\ tasks[t].otp \in SixDigitTexts
       /\ tasks[t].out = "linked"
       /\ conv[tasks[t].u][tasks[t].chat] = END
       /\ \E r \in users : r.email = tasks[t].email /\ r.telegram_id = tasks[t].u
       /\ \E i, j \in DOMAIN otp_codes :
             /\ i < j
             /\ ~otp_codes[i].used
             /\ otp_codes[j].used /\ otp_codes[j].otp = tasks[t].otp

C22_Step(t) ==
    ( /\ tasks[t].pc = "idle"
      /\ tasks'[t].handler = "cancel_link" )
    => LET u == tasks'[t].u
           c == tasks'[t].chat
       IN  /\ conv[u][c] \in {WAITING_FOR_EMAIL, WAITING_FOR_OTP}
           /\ conv' = [conv EXCEPT ![u][c] = END]
           /\ tasks'[t].pc = "done"
           /\ users' = users
           /\ otp_codes' = otp_codes

\* C22 (cancellation).  /cancel is taken in a conversation waiting for the
\* email or for the code; its handler ends that conversation in the step
\* it is dispatched in and writes neither to users nor to otp_codes.
C22_CancelHasNoSideEffect ==
    /\ [][\A t \in Tasks : C22_Step(t)]_vars
    /\ \A t \in Tasks :
          []((Free(t) /\ conv["A"]["c1"] \in {WAITING_FOR_EMAIL, WAITING_FOR_OTP})
                => ENABLED cancel_link(t, "A", "c1"))

\* a conversation waiting for the code was cancelled: it is over and the
\* code issued for it is still in the registry, unused
C22_Witness ==
    \E t \in Tasks :
       /\ Returned(t, "cancel_link")
       /\ conv[tasks[t].u][tasks[t].chat] = END
       /\ user_data[tasks[t].u] # NoEmail
       /\ \A i \in DOMAIN otp_codes :
             otp_codes[i].email = user_data[tasks[t].u] /\ ~otp_codes[i].used
       /\ otp_codes # <<>>

\* C23 (total_queries never goes down).  No step lowers the
\* total_queries of a row: not a spend of the bot, not a request served by
\* the web surface, in whatever order they come.
C23_TotalQueriesMonotone ==
    [][\A r \in users : \A r2 \in users' :
          r2.id = r.id => r2.total_queries >= r.total_queries]_vars

\* the handlers that create the account of a user who has none
LazyHandlers == {"start", "handle_message"}

\* the steps of /start and of handle_message; `texts` says which texts
\* sent by a user without an account are to create one
C24_Step(t, texts) ==
    LET u == tasks'[t].u
        new == users' \ users
        creates == \/ tasks'[t].handler = "start"
                   \/ tasks'[t].slash \in texts
    IN  /\ ( /\ tasks[t].pc = "idle"
             /\ tasks'[t].handler \in LazyHandlers )
           => /\ users' = users
              /\ creates =>
                    (tasks'[t].pc \in {"start_create", "msg_create"}
                        <=> RowsOfTg(users, u) = {})
              /\ ~creates =>
                    /\ tasks'[t].pc = "done"
                    /\ tasks'[t].out = "ignored"
        /\ ( /\ tasks[t].pc \in {"start_create", "msg_create"}
             /\ tasks'[t] # tasks[t] )
           => /\ RowsOfTg(users, u) = {}
              /\ Cardinality(users') = Cardinality(users) + 1
              /\ \E r \in new :
                    /\ new = {r}
                    /\ users' = users \cup {r}
                    /\ r.telegram_id = u
                    /\ r.email.dom = "telegram.placeholder"
                    /\ r.free_credits = 1 /\ r.paid_credits = 0
                    /\ r.total_queries = 0
                    /\ r.email_verified = FALSE
        /\ ( /\ tasks'[t] # tasks[t]
             /\ tasks[t].handler \in LazyHandlers
             /\ tasks[t].pc \notin {"start_create", "msg_create"} )
           => /\ \A r \in users' : \E o \in users : o.id = r.id
              /\ \A r \in users' : \A o \in users :
                    o.id = r.id => /\ r.free_credits <= o.free_credits
                                   /\ r.paid_credits <= o.paid_credits

\* C24 (lazy creation).  /start and a text handled as free text (no
\* conversation of the user in the chat being open, where a text goes to the
\* dialogue), sent by a user who has no account, insert one row:
\* placeholder email, the chat identity, one free credit, no paid credit, no
\* query, email not verified.  Sent by a user who has an account, they
\* insert no row, and no step of theirs raises the credits of a row.
C24_LazyCreation == [][\A t \in Tasks : C24_Step(t, BOOLEAN)]_vars

\* the same of /start and of the texts that do not begin with '/' only,
\* the others being dropped unread and unanswered
LazyCreationOfPlainTexts == [][\A t \in Tasks : C24_Step(t, {FALSE})]_vars

\* an account that counts as a binding: a real email, verified
VerifiedBinding(r) == r.email.dom # "telegram.placeholder" /\ r.email_verified

C25_Step(t) ==
    ( /\ tasks[t].pc = "idle"
      /\ tasks'[t].handler = "link_command" )
    => LET u == tasks'[t].u
           c == tasks'[t].chat
           rows == RowsOfTg(users, u)
       IN  /\ (rows # {} /\ \A r \in rows : VerifiedBinding(r))
              => /\ tasks'[t].out = "already_linked"
                 /\ conv'[u][c] = END
           /\ (\A r \in rows : ~VerifiedBinding(r))
              => /\ tasks'[t].out = "ask_email"
                 /\ conv'[u][c] = WAITING_FOR_EMAIL

\* C25 (entry of the dialogue).  /link reports the binding and opens no
\* conversation when the account of the user has a real email that is
\* verified; when the user has no account, or one with a placeholder email,
\* or one with a real email that is not verified, /link asks for the email
\* and the conversation waits for it.
C25_LinkEntry == [][\A t \in Tasks : C25_Step(t)]_vars

\* the conversation of user u in chat c is open
Open(u, c) == conv[u][c] \in {WAITING_FOR_EMAIL, WAITING_FOR_OTP}

C26_Step(t) ==
    (tasks[t].pc = "idle" /\ tasks'[t].chat \in Chats)
    => LET u == tasks'[t].u
           c == tasks'[t].chat
       IN  /\ tasks'[t].handler = "handle_message" => ~Open(u, c)
           /\ Open(u, c) =>
                 /\ tasks'[t].handler \in
                       {"receive_email_for_link", "receive_otp_for_link",
                        "cancel_link"}
                 /\ users' = users /\ next_id' = next_id

\* what a text of user A in chat c1 can be dispatched to
C26_Routes(t) ==
    LET toTopic == \E topic \in TopicInputs : ENABLED MsgBegin(t, "A", "c1", topic, TRUE)
        toEmail == \E raw \in EmailInputs(WebLocals) : ENABLED EmailBegin(t, "A", "c1", raw, TRUE)
        toOtp == \E typed \in OtpInputs : ENABLED OtpBegin(t, "A", "c1", typed, TRUE)
    IN  Free(t) =>
          /\ conv["A"]["c1"] = WAITING_FOR_EMAIL => (toEmail /\ ~toTopic /\ ~toOtp)
          /\ conv["A"]["c1"] = WAITING_FOR_OTP => (toOtp /\ ~toTopic /\ ~toEmail)
          /\ conv["A"]["c1"] = END => (toTopic /\ ~toEmail /\ ~toOtp)

\* C26 (routing of a text).  While the conversation of a user in a chat
\* is open, the texts of that user in that chat are dispatched to the
\* handlers of the dialogue, never to handle_message, and the dispatch
\* inserts no account and spends no credit; a
\* text cannot be dispatched to handle_message then.  Once the conversation
\* is over, a text is dispatched to handle_message and to nothing else.
C26_TextRouting ==
    /\ [][\A t \in Tasks : C26_Step(t)]_vars
    /\ [](C26_Routes(1))

\* a text was handled by receive_email_for_link, which left the
\* conversation open, while the user had a credit a topic could have spent:
\* the account is as it was
C26_Witness ==
    \E t \in Tasks :
       /\ Returned(t, "receive_email_for_link")
       /\ Open(tasks[t].u, tasks[t].chat)
       /\ \E r \in RowsOfTg(users, tasks[t].u) : Total(r) > 0 /\ r.total_queries = 0
       /\ users = before.users

\* C27 (a binding is not taken over).  No step changes the chat identity
\* of a row that has a real email and is bound to a chat identity: when two
\* users link the same email, in whatever order their updates come, the one
\* who is bound first stays bound.
C27_NoRebind ==
    [][\A r \in users : \A r2 \in users' :
          ( /\ r2.id = r.id
            /\ r.email.dom # "telegram.placeholder"
            /\ r.telegram_id # NoTg )
          => r2.telegram_id = r.telegram_id]_vars

\* C28 (merging an account with itself).  When receive_otp_for_link has
\* verified a code and the one account of the user is already the account
\* of the email, no step of the handler changes the credits of that
\* account, and the account stays.
C28_SelfMergeKeepsCredits ==
    [][\A t \in Tasks :
          ( /\ tasks[t].handler = "receive_otp_for_link"
            /\ tasks[t].pc \in {"otp_get_tg", "otp_get_web", "otp_delete",
                                "otp_update", "otp_link"}
            /\ tasks'[t] # tasks[t] )
          => \A W \in users :
                ( /\ RowsOfTg(users, tasks[t].u) = {W}
                  /\ RowsOfEmail(users, tasks[t].email) = {W} )
                => \E r \in users' :
                      /\ r.id = W.id
                      /\ r.free_credits = W.free_credits
                      /\ r.paid_credits = W.paid_credits]_vars

\* the credits, free and paid, of all the rows of a table
RECURSIVE TotalCredits(_)
TotalCredits(tbl) ==
    IF tbl = {} THEN 0
    ELSE LET r == CHOOSE x \in tbl : TRUE
         IN  Total(r) + TotalCredits(tbl \ {r})

\* C29 (a failing store and the merge).  When receive_otp_for_link has
\* returned, having linked or having met a failure of the store, the
\* credits of all accounts together are what they were when the code
\* arrived; and when a write of the merge failed the user is not told that
\* the accounts are linked.
C29_MergeFailureConserves ==
    \A t \in Tasks :
       Returned(t, "receive_otp_for_link")
       => /\ TotalCredits(users) = TotalCredits(before.users)
          /\ tasks[t].out = "linked" =>
                \A T \in RowsOfTg(before.users, tasks[t].u) :
                   IsPlaceholder(T.email) => T \notin users

====
